---- MODULE Spec2Model ----
(***************************************************************************)
(* A model of the Poof background-removal client (src/src/client.ts), its  *)
(* input normaliser (src/src/utils.ts) and its error classes               *)
(* (src/unnamed/part_000, errors.ts).                                      *)
(*                                                                         *)
(* JavaScript values are modelled as follows.                              *)
(*   - an optional value is a sequence: <<>> is undefined, <<v>> is v;     *)
(*   - a byte buffer is a sequence of numbers 0..255, indexed from 0 by    *)
(*     ByteAt;                                                             *)
(*   - a string that the code takes apart (a path) is a sequence of        *)
(*     one-character strings; Join turns it into a string;                 *)
(*   - the result of running code that may throw is a completion           *)
(*     [t |-> "return" or "throw", v |-> value].                           *)
(***************************************************************************)
EXTENDS Integers, Sequences, FiniteSets, TLC

VARIABLES
    config,     \* the Poof instance's fields: apiKey, baseUrl, timeout
    host,       \* the runtime: isNode (utils.ts:4) and whether File is a global
    pc,         \* per call: the await the async function is suspended at
    call,       \* per call: the operation and its arguments
    request,    \* per call: the transport requests it issued, in order
    rejection,  \* per call: what the transport's fetch promise was rejected with
    timer,      \* per call: the setTimeout handle ("unset", "armed", "fired", "cleared")
    aborted,    \* per call: controller.signal.aborted
    elapsedAt,  \* per call: where the call was when its timeout elapsed
    response,   \* per call: the Response the transport resolved with
    outcome,    \* per call: what the call's promise settled with
    fin,        \* the input of a pure function under check
    fout        \* its output

vars == <<config, host, pc, call, request, rejection, timer, aborted, elapsedAt,
          response, outcome, fin, fout>>

clientVars == <<config, host, pc, call, request, rejection, timer, aborted,
                elapsedAt, response, outcome>>

-----------------------------------------------------------------------------
(* JavaScript values *)

Undefined == <<>>
Some(v) == <<v>>

Return(v) == [t |-> "return", v |-> v]
Throw(v) == [t |-> "throw", v |-> v]

\* A value read from an object literal: a string, a class of errors.ts, a
\* built-in function, an object, or undefined.
JsUndefined == [k |-> "undefined", name |-> "", ctor |-> FALSE]
JsString(s) == [k |-> "string", name |-> s, ctor |-> FALSE]
JsClass(n) == [k |-> "class", name |-> n, ctor |-> TRUE]
JsFunction(n, isCtor) == [k |-> "function", name |-> n, ctor |-> isCtor]
JsObject(n) == [k |-> "object", name |-> n, ctor |-> FALSE]

\* ToBoolean, as "||" applies it.
Truthy(v) == v.k # "undefined" /\ ~(v.k = "string" /\ v.name = "")

\* a || b
OrElse(a, b) == IF Truthy(a) THEN a ELSE b

\* The methods every object literal inherits from Object.prototype.
ObjectPrototypeMethods ==
    {"toString", "toLocaleString", "valueOf", "hasOwnProperty",
     "isPrototypeOf", "propertyIsEnumerable"}

\* obj[key] for a key the literal does not define itself: the lookup goes on
\* to Object.prototype.
InheritedProperty(key) ==
    IF key = "constructor" THEN JsFunction("Object", TRUE)
    ELSE IF key = "__proto__" THEN JsObject("Object.prototype")
    ELSE IF key \in ObjectPrototypeMethods THEN JsFunction(key, FALSE)
    ELSE JsUndefined

\* String(v), lower-cased as the Blob constructor lower-cases a type.
BlobTypeOf(v) ==
    IF v.k = "string" THEN v.name
    ELSE IF v.k = "function" THEN "function " \o "object" \o "() { [native code] }"
    ELSE IF v.k = "object" THEN "[object object]"
    ELSE "undefined"

\* `${v}` in a template literal.
TemplateOf(v) ==
    IF v.k = "string" THEN v.name
    ELSE IF v.k = "function" THEN "function " \o v.name \o "() { [native code] }"
    ELSE IF v.k = "object" THEN "[object Object]"
    ELSE "undefined"

RECURSIVE Join(_)
Join(chars) == IF chars = <<>> THEN "" ELSE Head(chars) \o Join(Tail(chars))

-----------------------------------------------------------------------------
(* utils.ts *)

\* buffer[i]: undefined past the end.
ByteAt(buffer, i) == IF i < Len(buffer) THEN Some(buffer[i + 1]) ELSE Undefined

\* A detection that takes every RIFF file for WEBP.
detectMimeTypeRiff(buffer) ==
    IF /\ ByteAt(buffer, 0) = Some(\h89) /\ ByteAt(buffer, 1) = Some(\h50)
       /\ ByteAt(buffer, 2) = Some(\h4e) /\ ByteAt(buffer, 3) = Some(\h47)
    THEN "image/png"
    ELSE IF /\ ByteAt(buffer, 0) = Some(\hff) /\ ByteAt(buffer, 1) = Some(\hd8)
            /\ ByteAt(buffer, 2) = Some(\hff)
    THEN "image/jpeg"
    ELSE IF /\ ByteAt(buffer, 0) = Some(\h52) /\ ByteAt(buffer, 1) = Some(\h49)
            /\ ByteAt(buffer, 2) = Some(\h46) /\ ByteAt(buffer, 3) = Some(\h46)
    THEN "image/webp"
    ELSE IF /\ ByteAt(buffer, 0) = Some(\h47) /\ ByteAt(buffer, 1) = Some(\h49)
            /\ ByteAt(buffer, 2) = Some(\h46)
    THEN "image/gif"
    ELSE "application/octet-stream"

detectMimeType(buffer) ==
    IF /\ ByteAt(buffer, 0) = Some(\h89) /\ ByteAt(buffer, 1) = Some(\h50)
       /\ ByteAt(buffer, 2) = Some(\h4e) /\ ByteAt(buffer, 3) = Some(\h47)
    THEN "image/png"
    ELSE IF /\ ByteAt(buffer, 0) = Some(\hff) /\ ByteAt(buffer, 1) = Some(\hd8)
            /\ ByteAt(buffer, 2) = Some(\hff)
    THEN "image/jpeg"
    ELSE IF /\ ByteAt(buffer, 0) = Some(\h52) /\ ByteAt(buffer, 1) = Some(\h49)
            /\ ByteAt(buffer, 2) = Some(\h46) /\ ByteAt(buffer, 3) = Some(\h46)
            /\ ByteAt(buffer, 8) = Some(\h57) /\ ByteAt(buffer, 9) = Some(\h45)
            /\ ByteAt(buffer, 10) = Some(\h42) /\ ByteAt(buffer, 11) = Some(\h50)
    THEN "image/webp"
    ELSE IF /\ ByteAt(buffer, 0) = Some(\h47) /\ ByteAt(buffer, 1) = Some(\h49)
            /\ ByteAt(buffer, 2) = Some(\h46)
    THEN "image/gif"
    ELSE "application/octet-stream"

\* map[mimeType] of getExtension: the literal's own keys, then Object.prototype.
ExtensionMap(mimeType) ==
    IF mimeType = "image/png" THEN JsString("png")
    ELSE IF mimeType = "image/jpeg" THEN JsString("jpg")
    ELSE IF mimeType = "image/webp" THEN JsString("webp")
    ELSE IF mimeType = "image/gif" THEN JsString("gif")
    ELSE InheritedProperty(mimeType)

getExtension(mimeType) == OrElse(ExtensionMap(mimeType), JsString("bin"))

\* mimeFromExt[ext] of toBlob: the literal's own keys, then Object.prototype.
mimeFromExt(ext) ==
    IF ext = "png" THEN JsString("image/png")
    ELSE IF ext \in {"jpg", "jpeg"} THEN JsString("image/jpeg")
    ELSE IF ext = "webp" THEN JsString("image/webp")
    ELSE IF ext = "gif" THEN JsString("image/gif")
    ELSE InheritedProperty(ext)

\* String.prototype.toLowerCase, on the letters the paths of the model use.
LowerChar(c) ==
    CASE c = "P" -> "p" [] c = "N" -> "n" [] c = "G" -> "g"
      [] c = "J" -> "j" [] c = "I" -> "i" [] c = "F" -> "f"
      [] OTHER -> c

toLowerCase(chars) == [i \in 1..Len(chars) |-> LowerChar(chars[i])]

\* The last index of ch in chars, 0 when there is none.
LastIndexOf(chars, ch) ==
    LET at == {i \in 1..Len(chars) : chars[i] = ch}
    IN  IF at = {} THEN 0 ELSE CHOOSE i \in at : \A j \in at : j <= i

RECURSIVE StripTrailing(_, _)
StripTrailing(chars, ch) ==
    IF Len(chars) > 1 /\ chars[Len(chars)] = ch
    THEN StripTrailing(SubSeq(chars, 1, Len(chars) - 1), ch)
    ELSE chars

\* The part of chars after its last separator.
LastSegment(chars, seps) ==
    LET at == {i \in 1..Len(chars) : chars[i] \in seps}
        last == IF at = {} THEN 0 ELSE CHOOSE i \in at : \A j \in at : j <= i
    IN  SubSeq(chars, last + 1, Len(chars))

\* path.extname (POSIX): from the last "." of the last path segment, "" when
\* there is none, when it starts the segment, or when the segment is "..".
extname(path) ==
    LET base == LastSegment(StripTrailing(path, "/"), {"/"})
        dot == LastIndexOf(base, ".")
    IN  IF dot <= 1 \/ base = <<".", ".">> THEN <<>>
        ELSE SubSeq(base, dot, Len(base))

\* s.slice(1)
slice1(chars) == IF chars = <<>> THEN <<>> ELSE Tail(chars)

IsBlob(input) == input.t \in {"Blob", "File"}
\* A Node.js Buffer is a Uint8Array.
IsUint8Array(input) == input.t \in {"Uint8Array", "Buffer"}

NewBlob(bytes, type) ==
    [class |-> "Blob", bytes |-> bytes, type |-> type, name |-> Undefined]

\* An error object that is not a PoofError: new Error(message), a TypeError of
\* the runtime, a DOMException. isError is `instanceof Error`.
RuntimeError(class, name, message) ==
    [class |-> class, name |-> name, message |-> message, isError |-> TRUE,
     code |-> Undefined, status |-> Undefined, requestId |-> Undefined,
     details |-> Undefined]

PlainError(message) == RuntimeError("Error", "Error", message)

\* What fs.readFile settles with: the file's bytes, or an error.
FileBytes(bytes) == [ok |-> TRUE, bytes |-> bytes, error |-> Undefined]
FileError(e) == [ok |-> FALSE, bytes |-> <<>>, error |-> Some(e)]

\* toBlob(input) on host h, where reading the file of a path input gives
\* `file`.
toBlob(input, h, file) ==
    IF IsBlob(input) THEN Return(input.blob)
    ELSE IF input.t = "ArrayBuffer"
    THEN Return(NewBlob(input.bytes, detectMimeType(input.bytes)))
    ELSE IF IsUint8Array(input)
    THEN Return(NewBlob(input.bytes, detectMimeType(input.bytes)))
    ELSE IF h.isNode /\ input.t = "Buffer"
    THEN Return(NewBlob(input.bytes, detectMimeType(input.bytes)))
    ELSE IF input.t = "string"
    THEN IF ~h.isNode
         THEN Throw(PlainError("File paths are only supported in Node.js. Use a Blob or File in the browser."))
         ELSE IF ~file.ok THEN Throw(file.error[1])
         ELSE LET mimeType == detectMimeType(file.bytes)
                  ext == Join(slice1(toLowerCase(extname(input.path))))
                  finalMimeType == OrElse(mimeFromExt(ext), JsString(mimeType))
              IN  Return(NewBlob(file.bytes, BlobTypeOf(finalMimeType)))
    ELSE Throw(PlainError("Unsupported input type: " \o input.typeof))

getFilename(input, mimeType, h) ==
    IF h.hasFile /\ input.t = "File" THEN input.blob.name[1]
    ELSE IF input.t = "string" /\ h.isNode
    THEN LET last == Join(LastSegment(input.path, {"/", "\\"}))
         IN  IF last # "" THEN last
             ELSE "image." \o TemplateOf(getExtension(mimeType))
    ELSE "image." \o TemplateOf(getExtension(mimeType))

-----------------------------------------------------------------------------
(* errors.ts (src/unnamed/part_000) *)

PoofClasses ==
    {"PoofError", "AuthenticationError", "PermissionError", "PaymentRequiredError",
     "RateLimitError", "ValidationError", "ServerError"}

\* new C(message, code, options) for a class C of errors.ts: every subclass
\* passes its arguments to PoofError's constructor and sets its own name.
\* super(message) makes an undefined message the empty string.
NewPoofError(class, message, code, options) ==
    [class |-> class, name |-> class,
     message |-> IF message = Undefined THEN "" ELSE message[1],
     isError |-> TRUE, code |-> code, status |-> options.status,
     requestId |-> options.requestId, details |-> options.details]

\* e instanceof PoofError
IsPoofError(e) == e.class \in PoofClasses

\* ERROR_MAP[code]: the literal's own keys, then Object.prototype.
ERROR_MAP(code) ==
    IF code = "authentication_error" THEN JsClass("AuthenticationError")
    ELSE IF code = "permission_denied" THEN JsClass("PermissionError")
    ELSE IF code = "payment_required" THEN JsClass("PaymentRequiredError")
    ELSE IF code = "rate_limit_exceeded" THEN JsClass("RateLimitError")
    ELSE IF code \in {"validation_error", "missing_image", "image_too_large"}
    THEN JsClass("ValidationError")
    ELSE IF code \in {"upstream_error", "internal_server_error"}
    THEN JsClass("ServerError")
    ELSE InheritedProperty(code)

\* A property key made of an optional string: undefined is the key "undefined".
PropertyKey(v) == IF v = Undefined THEN "undefined" ELSE v[1]

\* new ErrorClass(message, code, options), for whatever value ErrorClass is:
\* a class of errors.ts builds its instance, the Object function wraps its
\* first argument, and anything else is not a constructor.
Construct(ErrorClass, message, code, options) ==
    IF ErrorClass.k = "class"
    THEN Return(NewPoofError(ErrorClass.name, message, code, options))
    ELSE IF ErrorClass.k = "function" /\ ErrorClass.ctor
    THEN Return([class |-> IF message = Undefined THEN "Object" ELSE "String",
                 value |-> message])
    ELSE Throw(RuntimeError("TypeError", "TypeError", "ErrorClass is not a constructor"))

\* A parsed JSON body: null, or an object with the given fields.
JsonNull ==
    [t |-> "null", code |-> Undefined, message |-> Undefined,
     details |-> Undefined, request_id |-> Undefined]
JsonObject(code, message, details, request_id) ==
    [t |-> "object", code |-> code, message |-> message,
     details |-> details, request_id |-> request_id]

\* PoofError.fromResponse(response, status). Reading a property of null
\* throws.
fromResponse(resp, status) ==
    IF resp.t = "null"
    THEN Throw(RuntimeError("TypeError", "TypeError",
                            "Cannot read properties of null (reading 'code')"))
    ELSE LET ErrorClass == OrElse(ERROR_MAP(PropertyKey(resp.code)), JsClass("PoofError"))
         IN  Construct(ErrorClass, resp.message, resp.code,
                       [status |-> Some(status), requestId |-> resp.request_id,
                        details |-> resp.details])

-----------------------------------------------------------------------------
(* client.ts: configuration *)

DEFAULT_BASE_URL == "https://api.poof.bg/v1"
DEFAULT_TIMEOUT == 60000

\* The number of calls made on the one Poof instance.
NCalls == 2
Calls == 1..NCalls

\* s.replace(/\/$/, '')
StripSlash(chars) ==
    IF chars # <<>> /\ chars[Len(chars)] = "/"
    THEN SubSeq(chars, 1, Len(chars) - 1)
    ELSE chars

\* new Poof(options) for a non-empty options.apiKey (an empty one throws and
\* leaves no instance). "||" replaces '' and 0 by the default.
Poof(options) ==
    [apiKey |-> options.apiKey,
     baseUrl |-> IF options.baseUrl = Undefined
                     \/ Join(StripSlash(options.baseUrl[1])) = ""
                 THEN DEFAULT_BASE_URL
                 ELSE Join(StripSlash(options.baseUrl[1])),
     timeout |-> IF options.timeout = Undefined \/ options.timeout[1] = 0
                 THEN DEFAULT_TIMEOUT
                 ELSE options.timeout[1]]

-----------------------------------------------------------------------------
(* client.ts: the outbound form of removeBackground *)

NoOptions ==
    [format |-> Undefined, channels |-> Undefined, bgColor |-> Undefined,
     size |-> Undefined, crop |-> Undefined]

FormField(name, value) == [name |-> name, value |-> value]

\* if (options.x) for an optional string x
TruthyString(v) == v # Undefined /\ v[1] # ""

FormatField(options) ==
    IF TruthyString(options.format)
    THEN <<FormField("format", options.format[1])>> ELSE <<>>

ChannelsField(options) ==
    IF TruthyString(options.channels)
    THEN <<FormField("channels", options.channels[1])>> ELSE <<>>

BgColorField(options) ==
    IF TruthyString(options.bgColor)
    THEN <<FormField("bg_color", options.bgColor[1])>> ELSE <<>>

SizeField(options) ==
    IF TruthyString(options.size)
    THEN <<FormField("size", options.size[1])>> ELSE <<>>

\* if (options.crop), as the string options are tested.
CropFieldIfTruthy(options) ==
    IF options.crop # Undefined /\ options.crop[1]
    THEN <<FormField("crop", "true")>>
    ELSE <<>>

\* String(options.crop) when options.crop !== undefined
CropField(options) ==
    IF options.crop # Undefined
    THEN <<FormField("crop", IF options.crop[1] THEN "true" ELSE "false")>>
    ELSE <<>>

\* The FormData of removeBackground: image_file, then the optional fields in
\* the order they are appended.
FormData(blob, filename, options) ==
    [image_file |-> [blob |-> blob, filename |-> filename],
     fields |-> FormatField(options) \o ChannelsField(options)
                \o BgColorField(options) \o SizeField(options)
                \o CropField(options)]

-----------------------------------------------------------------------------
(* client.ts: responses *)

\* The string of a digit, or -1.
DigitValue(c) ==
    CASE c = "0" -> 0 [] c = "1" -> 1 [] c = "2" -> 2 [] c = "3" -> 3
      [] c = "4" -> 4 [] c = "5" -> 5 [] c = "6" -> 6 [] c = "7" -> 7
      [] c = "8" -> 8 [] c = "9" -> 9 [] OTHER -> -1

RECURSIVE ParseDigits(_, _, _)
ParseDigits(chars, acc, seen) ==
    IF chars = <<>> \/ DigitValue(Head(chars)) < 0
    THEN IF seen THEN Some(acc) ELSE Undefined
    ELSE ParseDigits(Tail(chars), acc * 10 + DigitValue(Head(chars)), TRUE)

\* parseInt(header || '0', 10) for a header without sign or leading space:
\* the number its leading digits spell, NaN (<<>>) when it has none.
parseIntHeader(header) ==
    ParseDigits(IF header = Undefined \/ header[1] = <<>> THEN <<"0">> ELSE header[1],
                0, FALSE)

\* header || fallback, for a string header
HeaderOr(header, fallback) ==
    IF header = Undefined \/ header[1] = "" THEN fallback ELSE header[1]

AbortError ==
    RuntimeError("DOMException", "AbortError", "This operation was aborted")

\* response.json(): the parsed body, or a rejection when the body is not
\* JSON, when its stream breaks, or when the request's signal is aborted.
responseJson(resp, isAborted) ==
    IF isAborted THEN Throw(AbortError)
    ELSE IF resp.body.kind = "json" THEN Return(resp.body.json)
    ELSE IF resp.body.kind = "broken"
    THEN Throw(RuntimeError("TypeError", "TypeError", "terminated"))
    ELSE Throw(RuntimeError("SyntaxError", "SyntaxError", "Unexpected token"))

\* response.arrayBuffer(): the bytes of the body, whatever they are.
responseArrayBuffer(resp, isAborted) ==
    IF isAborted THEN Throw(AbortError)
    ELSE IF resp.body.kind = "broken"
    THEN Throw(RuntimeError("TypeError", "TypeError", "terminated"))
    ELSE Return(resp.body)

\* `HTTP ${response.status}: ${response.statusText}`
HttpMessage(resp) == "HTTP " \o ToString(resp.status) \o ": " \o resp.statusText

\* handleError without its try/catch around response.json().
handleErrorNoCatch(resp, isAborted) ==
    LET errorData == responseJson(resp, isAborted)
    IN  IF errorData.t = "throw" THEN errorData
        ELSE LET e == fromResponse(errorData.v, resp.status)
             IN  IF e.t = "throw" THEN e ELSE Throw(e.v)

\* handleError(response): what it throws (it never returns).
handleError(resp, isAborted) ==
    LET errorData == responseJson(resp, isAborted)
    IN  IF errorData.t = "throw"
        THEN Throw(NewPoofError("PoofError", Some(HttpMessage(resp)),
                                Some("unknown_error"),
                                [status |-> Some(resp.status),
                                 requestId |-> Undefined, details |-> Undefined]))
        ELSE LET e == fromResponse(errorData.v, resp.status)
             IN  IF e.t = "throw" THEN e ELSE Throw(e.v)

\* The RemoveBackgroundResult built from the body and the response headers.
ProcessingResult(data, headers) ==
    [data |-> data,
     metadata |->
        [requestId |-> HeaderOr(headers.requestId, ""),
         processingTimeMs |-> parseIntHeader(headers.processingTimeMs),
         width |-> parseIntHeader(headers.width),
         height |-> parseIntHeader(headers.height),
         contentType |-> HeaderOr(headers.contentType, "image/png")]]

\* A catch clause that rethrows whatever it caught.
fetchCatchRethrow(error) == error

\* A catch clause that wraps the transport's errors too.
fetchCatchWrapAll(error) ==
    IF error.isError /\ error.name = "AbortError"
    THEN NewPoofError("PoofError", Some("Request timeout"), Some("timeout"),
                      [status |-> Some(408), requestId |-> Undefined,
                       details |-> Undefined])
    ELSE NewPoofError("PoofError", Some(error.message), Some("network_error"),
                      [status |-> Undefined, requestId |-> Undefined,
                       details |-> Undefined])

\* The catch clause of Poof.fetch: what it throws for a rejection `error`.
fetchCatch(error) ==
    IF error.isError /\ error.name = "AbortError"
    THEN NewPoofError("PoofError", Some("Request timeout"), Some("timeout"),
                      [status |-> Some(408), requestId |-> Undefined,
                       details |-> Undefined])
    ELSE error

\* A finally clause that leaves the timer as it is.
clearTimeoutSkipped(t) == t

\* clearTimeout(timeoutId): a timer that fired stays fired.
clearTimeout(t) == IF t = "armed" THEN "cleared" ELSE t

\* Headers that are those of init alone.
AuthHeadersOfInit(headers, apiKey) == headers

\* headers.set('x-api-key', this.apiKey) on the headers of init
AuthHeaders(headers, apiKey) == [headers EXCEPT !.xApiKey = Some(apiKey)]

\* One controller kept by the instance and used by every call.
SharedController(c) == 1

\* new AbortController(): each call of Poof.fetch makes its own.
ControllerOf(c) == c

-----------------------------------------------------------------------------
(* The environment: hosts, constructor options, inputs, transport behaviour *)

Node20 == [isNode |-> TRUE, hasFile |-> TRUE]
Node18 == [isNode |-> TRUE, hasFile |-> FALSE]
Browser == [isNode |-> FALSE, hasFile |-> TRUE]

\* The (options, host) pairs a Poof instance is constructed with.
Deployments ==
    {[options |-> [apiKey |-> "key-1", baseUrl |-> Undefined, timeout |-> Undefined],
      host |-> Node20],
     [options |-> [apiKey |-> "key-2", baseUrl |-> Some(<<"h", "/">>),
                   timeout |-> Some(5000)],
      host |-> Browser]}

PngBytes == <<\h89, \h50, \h4e, \h47, \h0d, \h0a>>

FileInput ==
    [t |-> "File",
     blob |-> [class |-> "File", bytes |-> PngBytes, type |-> "image/png",
               name |-> Some("photo.png")]]
PathInput == [t |-> "string", path |-> <<"d", "/", "a", ".", "P", "N", "G">>]
NumberInput == [t |-> "other", typeof |-> "number"]

\* The (input, options) pairs removeBackground is called with.
RemoveArgs ==
    {[input |-> FileInput, options |-> NoOptions],
     [input |-> PathInput,
      options |-> [NoOptions EXCEPT !.format = Some("webp"), !.crop = Some(FALSE)]]}

\* What fs.readFile gives for a path input; other inputs read no file.
FileReads(input, h) ==
    IF input.t = "string" /\ h.isNode
    THEN {FileBytes(PngBytes),
          FileError(RuntimeError("Error", "Error", "ENOENT: no such file or directory"))}
    ELSE {FileBytes(<<>>)}

NoHeaders ==
    [requestId |-> Undefined, processingTimeMs |-> Undefined, width |-> Undefined,
     height |-> Undefined, contentType |-> Undefined]

ImageHeaders ==
    [requestId |-> Some("req-1"), processingTimeMs |-> Some(<<"4", "2">>),
     width |-> Some(<<"8", "0", "0">>), height |-> Some(<<"x">>),
     contentType |-> Some("image/webp")]

Body(kind, json) == [kind |-> kind, json |-> json]

HttpResponse(status, statusText, headers, body) ==
    [ok |-> status >= 200 /\ status <= 299, status |-> status,
     statusText |-> statusText, headers |-> headers, body |-> body]

AccountJson == JsonObject(Undefined, Undefined, Undefined, Undefined)

\* The responses the transport may resolve a request with.
Responses ==
    {HttpResponse(200, "OK", ImageHeaders, Body("binary", JsonNull)),
     HttpResponse(200, "OK", NoHeaders, Body("json", AccountJson)),
     HttpResponse(402, "Payment Required", NoHeaders,
                  Body("json", JsonObject(Some("payment_required"),
                                          Some("Insufficient credits"),
                                          Undefined, Some("r1")))),
     HttpResponse(400, "Bad Request", NoHeaders,
                  Body("json", JsonObject(Some("constructor"), Some("m"),
                                          Undefined, Some("r2")))),
     HttpResponse(500, "Internal Server Error", NoHeaders, Body("text", JsonNull)),
     HttpResponse(500, "Internal Server Error", NoHeaders, Body("json", JsonNull))}

NoResponse == HttpResponse(0, "", NoHeaders, Body("none", JsonNull))

\* The errors the transport may reject a request with, other than an abort.
TransportErrors ==
    {RuntimeError("TypeError", "TypeError", "fetch failed")}

-----------------------------------------------------------------------------
(* client.ts: the calls *)

NoCall == [op |-> "none", input |-> NumberInput, options |-> NoOptions]

InitClient(d) ==
    /\ config = Poof(d.options)
    /\ host = d.host
    /\ pc = [c \in Calls |-> "idle"]
    /\ call = [c \in Calls |-> NoCall]
    /\ request = [c \in Calls |-> <<>>]
    /\ rejection = [c \in Calls |-> Undefined]
    /\ timer = [c \in Calls |-> "unset"]
    /\ aborted = [c \in Calls |-> FALSE]
    /\ elapsedAt = [c \in Calls |-> "none"]
    /\ response = [c \in Calls |-> NoResponse]
    /\ outcome = [c \in Calls |-> <<>>]

Init ==
    /\ \E d \in Deployments : InitClient(d)
    /\ fin = <<>>
    /\ fout = <<>>

\* Calls are numbered in the order they are made.
NextToStart(c) == pc[c] = "idle" /\ \A d \in Calls : d < c => pc[d] # "idle"

\* Poof.fetch up to its await: the headers, the controller, the timer, the
\* transport request.
fetch(c, url, init) ==
    /\ request' = [request EXCEPT ![c] =
            Append(@, [url |-> url, method |-> init.method,
                       headers |-> AuthHeaders(init.headers, config.apiKey),
                       body |-> init.body, signal |-> ControllerOf(c)])]
    /\ timer' = [timer EXCEPT ![c] = "armed"]
    /\ pc' = [pc EXCEPT ![c] = "fetch"]

\* removeBackground(input, options) up to `await toBlob(input)`.
removeBackground(c, args) ==
    /\ NextToStart(c)
    /\ call' = [call EXCEPT ![c] =
            [op |-> "removeBackground", input |-> args.input, options |-> args.options]]
    /\ pc' = [pc EXCEPT ![c] = "toBlob"]
    /\ UNCHANGED <<config, host, request, rejection, timer, aborted, elapsedAt,
                   response, outcome, fin, fout>>

\* removeBackground from the settling of toBlob to `await fetch(...)`.
AfterToBlob(c, file) ==
    /\ pc[c] = "toBlob"
    /\ LET blob == toBlob(call[c].input, host, file)
       IN  IF blob.t = "throw"
           THEN /\ outcome' = [outcome EXCEPT ![c] = Append(@, blob)]
                /\ pc' = [pc EXCEPT ![c] = "done"]
                /\ UNCHANGED <<request, timer>>
           ELSE /\ fetch(c, config.baseUrl \o "/remove",
                         [method |-> "POST",
                          headers |-> [xApiKey |-> Undefined, accept |-> Undefined],
                          body |-> Some(FormData(blob.v,
                                        getFilename(call[c].input, blob.v.type, host),
                                        call[c].options))])
                /\ UNCHANGED outcome
    /\ UNCHANGED <<config, host, call, rejection, aborted, elapsedAt, response,
                   fin, fout>>

\* me() up to `await fetch(...)`.
me(c) ==
    /\ NextToStart(c)
    /\ call' = [call EXCEPT ![c] = [NoCall EXCEPT !.op = "me"]]
    /\ fetch(c, config.baseUrl \o "/me",
             [method |-> "GET",
              headers |-> [xApiKey |-> Undefined, accept |-> Some("application/json")],
              body |-> Undefined])
    /\ UNCHANGED <<config, host, rejection, aborted, elapsedAt, response, outcome,
                   fin, fout>>

\* The transport resolves the request of call c with a response. The
\* continuation of Poof.fetch runs before any other event: it returns the
\* response, its finally clears the timer, and the caller goes on to read the
\* body (in handleError when the status is not ok).
TransportRespond(c, resp) ==
    /\ pc[c] = "fetch"
    /\ response' = [response EXCEPT ![c] = resp]
    /\ timer' = [timer EXCEPT ![c] = clearTimeout(@)]
    /\ pc' = [pc EXCEPT ![c] = IF resp.ok THEN "body" ELSE "errorBody"]
    /\ UNCHANGED <<config, host, call, request, rejection, aborted, elapsedAt,
                   outcome, fin, fout>>

\* The transport rejects the request of call c (DNS failure, connection
\* refused). The catch clause of Poof.fetch runs, then its finally.
TransportFail(c, e) ==
    /\ pc[c] = "fetch"
    /\ rejection' = [rejection EXCEPT ![c] = Some(e)]
    /\ outcome' = [outcome EXCEPT ![c] = Append(@, Throw(fetchCatch(e)))]
    /\ timer' = [timer EXCEPT ![c] = clearTimeout(@)]
    /\ pc' = [pc EXCEPT ![c] = "done"]
    /\ UNCHANGED <<config, host, call, request, aborted, elapsedAt, response, fin, fout>>

\* The calls whose pending request carries the signal of controller k.
PendingOn(k) ==
    {d \in Calls : pc[d] = "fetch" /\ request[d][Len(request[d])].signal = k}

\* this.timeout milliseconds have passed since call c set its timer. If the
\* timer is still armed its callback runs: controller.abort() rejects every
\* pending request that carries the controller's signal with an AbortError,
\* and the catch clause and the finally of Poof.fetch run for each.
TimeoutElapse(c) ==
    /\ pc[c] \in {"fetch", "errorBody", "body"}
    /\ elapsedAt[c] = "none"
    /\ elapsedAt' = [elapsedAt EXCEPT ![c] = IF pc[c] = "fetch" THEN "headers" ELSE "body"]
    /\ IF timer[c] = "armed"
       THEN LET hit == PendingOn(ControllerOf(c))
            IN  /\ aborted' = [aborted EXCEPT ![ControllerOf(c)] = TRUE]
                /\ rejection' = [d \in Calls |->
                        IF d \in hit THEN Some(AbortError) ELSE rejection[d]]
                /\ timer' = [d \in Calls |->
                        IF d = c THEN "fired"
                        ELSE IF d \in hit THEN clearTimeout(timer[d]) ELSE timer[d]]
                /\ outcome' = [d \in Calls |->
                        IF d \in hit THEN Append(outcome[d], Throw(fetchCatch(AbortError)))
                        ELSE outcome[d]]
                /\ pc' = [d \in Calls |-> IF d \in hit THEN "done" ELSE pc[d]]
       ELSE UNCHANGED <<rejection, timer, aborted, outcome, pc>>
    /\ UNCHANGED <<config, host, call, request, response, fin, fout>>

IsAborted(c) == aborted[request[c][Len(request[c])].signal]

\* handleError after `await response.json()`: it throws, and the call ends.
AfterErrorBody(c) ==
    /\ pc[c] = "errorBody"
    /\ LET thrown == handleError(response[c], IsAborted(c))
       IN  IF thrown.t = "throw"
           THEN /\ outcome' = [outcome EXCEPT ![c] = Append(@, thrown)]
                /\ pc' = [pc EXCEPT ![c] = "done"]
           ELSE /\ pc' = [pc EXCEPT ![c] = "body"]
                /\ UNCHANGED outcome
    /\ UNCHANGED <<config, host, call, request, rejection, timer, aborted,
                   elapsedAt, response, fin, fout>>

\* What a call returns or throws once the body of an ok response is read:
\* removeBackground after `await response.arrayBuffer()`, me with what
\* response.json() settles with.
bodyOutcome(op, resp, isAborted) ==
    IF op = "me" THEN responseJson(resp, isAborted)
    ELSE LET data == responseArrayBuffer(resp, isAborted)
         IN  IF data.t = "throw" THEN data
             ELSE Return(ProcessingResult(data.v, resp.headers))

AfterBody(c) ==
    /\ pc[c] = "body"
    /\ outcome' = [outcome EXCEPT ![c] =
            Append(@, bodyOutcome(call[c].op, response[c], IsAborted(c)))]
    /\ pc' = [pc EXCEPT ![c] = "done"]
    /\ UNCHANGED <<config, host, call, request, rejection, timer, aborted,
                   elapsedAt, response, fin, fout>>

Next ==
    \/ \E c \in Calls, args \in RemoveArgs : removeBackground(c, args)
    \/ \E c \in Calls : \E file \in FileReads(call[c].input, host) : AfterToBlob(c, file)
    \/ \E c \in Calls : me(c)
    \/ \E c \in Calls, resp \in Responses : TransportRespond(c, resp)
    \/ \E c \in Calls, e \in TransportErrors : TransportFail(c, e)
    \/ \E c \in Calls : TimeoutElapse(c)
    \/ \E c \in Calls : AfterErrorBody(c)
    \/ \E c \in Calls : AfterBody(c)

Spec == Init /\ [][Next]_vars

-----------------------------------------------------------------------------
(* PoofError.fromResponse on its own *)

ErrorCodes ==
    {"authentication_error", "permission_denied", "payment_required",
     "rate_limit_exceeded", "validation_error", "missing_image",
     "image_too_large", "upstream_error", "internal_server_error"}

\* Codes the server may add later, among them names every object inherits.
OtherCodes == {"quota_exceeded", "constructor", "toString", "__proto__"}

ClassifyInputs ==
    {[payload |-> JsonObject(Some(code), Some(message), details, Some(rid)),
      status |-> status] :
        code \in ErrorCodes \cup OtherCodes,
        message \in {"Insufficient credits", ""},
        details \in {Undefined, Some("see docs")},
        rid \in {"r1"},
        status \in {400, 402, 500}}

\* A Poof instance that no call has been made on.
IdleClient == InitClient(CHOOSE d \in Deployments : d.host = Node20)

InitClassify ==
    /\ IdleClient
    /\ fin \in ClassifyInputs
    /\ fout = <<>>

Classify ==
    /\ fout = <<>>
    /\ fout' = <<fromResponse(fin.payload, fin.status)>>
    /\ UNCHANGED <<fin, clientVars>>

SpecClassify == InitClassify /\ [][Classify]_vars

-----------------------------------------------------------------------------
(* The outbound form on its own *)

RemoveBackgroundOptions ==
    [format : {Undefined, Some(""), Some("webp")},
     channels : {Undefined, Some(""), Some("rgb")},
     bgColor : {Undefined, Some(""), Some("#ffffff"), Some("0")},
     size : {Undefined, Some(""), Some("medium")},
     crop : {Undefined, Some(TRUE), Some(FALSE)}]

InitForm ==
    /\ IdleClient
    /\ fin \in RemoveBackgroundOptions
    /\ fout = <<>>

BuildForm ==
    /\ fout = <<>>
    /\ fout' = <<FormData(FileInput.blob, getFilename(FileInput, "image/png", host), fin)>>
    /\ UNCHANGED <<fin, clientVars>>

SpecForm == InitForm /\ [][BuildForm]_vars

-----------------------------------------------------------------------------
(* toBlob on its own *)

\* The longest buffer the model gives toBlob.
MaxBufLen == 12

Zeros(n) == [i \in 1..n |-> 0]

\* The first four bytes: each signature, and each with a byte changed.
Heads ==
    {<<\h89, \h50, \h4e, \h47>>, <<\h89, \h50, \h4e, \h46>>,
     <<\hff, \hd8, \hff, \he0>>, <<\hff, \hd8, \h00, \hff>>,
     <<\h52, \h49, \h46, \h46>>, <<\h52, \h49, \h46, \h38>>,
     <<\h47, \h49, \h46, \h38>>, <<\h47, \h49, \h00, \h46>>,
     <<\h00, \h89, \h50, \h4e>>}

\* Bytes 8 to 11: WEBP, and not WEBP.
Tails == {<<\h57, \h45, \h42, \h50>>, <<\h57, \h41, \h56, \h45>>,
          <<\h57, \h45, \h42, \h00>>}

\* Every buffer of at most MaxBufLen bytes that starts as a head, four
\* zeros, a tail and zeros.
Buffers ==
    {SubSeq(head \o Zeros(4) \o tail \o Zeros(MaxBufLen), 1, n) :
        head \in Heads, tail \in Tails, n \in 0..MaxBufLen}

Paths ==
    {<<"a", ".", "p", "n", "g">>, <<"a", ".", "P", "N", "G">>,
     <<"a", ".", "j", "p", "g">>, <<"a", ".", "j", "p", "e", "g">>,
     <<"a", ".", "w", "e", "b", "p">>, <<"d", ".", "x", "/", "a", ".", "g", "i", "f">>,
     <<"a">>, <<".", "p", "n", "g">>, <<"a", ".", "t", "x", "t">>,
     <<"d", ".", "p", "n", "g", "/", "a">>, <<"a", ".">>,
     <<"a", ".", "c", "o", "n", "s", "t", "r", "u", "c", "t", "o", "r">>}

FileContents ==
    {FileBytes(PngBytes), FileBytes(<<\hff, \hd8, \hff, \he0>>),
     FileBytes(<<\h47, \h49, \h46, \h38>>), FileBytes(<<>>),
     FileError(RuntimeError("Error", "Error", "ENOENT: no such file or directory"))}

BlobInputs ==
    {[input |-> [t |-> t, bytes |-> b], host |-> h, file |-> FileBytes(<<>>)] :
        t \in {"ArrayBuffer", "Uint8Array"}, b \in Buffers, h \in {Node20, Browser}}
    \cup
    {[input |-> [t |-> "Buffer", bytes |-> b], host |-> h, file |-> FileBytes(<<>>)] :
        b \in Buffers, h \in {Node20, Node18}}
    \cup
    {[input |-> [t |-> "string", path |-> path], host |-> h, file |-> f] :
        path \in Paths, h \in {Node20, Browser}, f \in FileContents}
    \cup
    {[input |-> i, host |-> h, file |-> FileBytes(<<>>)] :
        i \in {FileInput, NumberInput}, h \in {Node20, Browser}}

InitBlob ==
    /\ IdleClient
    /\ fin \in BlobInputs
    /\ fout = <<>>

Normalize ==
    /\ fout = <<>>
    /\ fout' = <<toBlob(fin.input, fin.host, fin.file)>>
    /\ UNCHANGED <<fin, clientVars>>

SpecBlob == InitBlob /\ [][Normalize]_vars

-----------------------------------------------------------------------------
(* Claims *)

Finished(c) == pc[c] = "done"
Thrown(c) == outcome[c][1].v
Threw(c) == Finished(c) /\ outcome[c][1].t = "throw"
Returned(c) == Finished(c) /\ outcome[c][1].t = "return"
GotResponse(c) == response[c] # NoResponse

\* The Timeout error of the taxonomy.
TimeoutError ==
    [class |-> "PoofError", name |-> "PoofError", message |-> "Request timeout",
     isError |-> TRUE, code |-> <<"timeout">>, status |-> <<408>>,
     requestId |-> <<>>, details |-> <<>>]

\* The names an object literal inherits.
InheritedNames ==
    {"constructor", "__proto__", "toString", "toLocaleString", "valueOf",
     "hasOwnProperty", "isPrototypeOf", "propertyIsEnumerable"}

\* C1, as stated: every call ends in exactly one outcome, a result or a typed
\* error (a PoofError or a subclass), never both and never neither.
C1_ResultOrTypedError ==
    \A c \in Calls :
        /\ Len(outcome[c]) <= 1
        /\ Finished(c) => Len(outcome[c]) = 1
        /\ Threw(c) => IsPoofError(Thrown(c))

\* The failures client.ts turns into a PoofError: the timer firing while the
\* request is pending, and a non-ok response whose body is not JSON or is a
\* JSON value other than null whose code names no inherited property.
TypedCause(c) ==
    \/ timer[c] = "fired"
    \/ /\ GotResponse(c) /\ ~response[c].ok
       /\ \/ response[c].body.kind # "json"
          \/ /\ response[c].body.json.t # "null"
             /\ \A n \in InheritedNames : response[c].body.json.code # <<n>>

\* C1, amended: a call that has ended has exactly one outcome, a returned
\* result or a thrown value, and a call that has not ended has none; a result
\* is returned only for an ok response; the thrown value is a PoofError
\* exactly when the failure is one client.ts turns into a PoofError, and is
\* the untyped error of the runtime or the transport otherwise.
C1_ExactlyOneOutcome ==
    \A c \in Calls :
        /\ Len(outcome[c]) <= 1
        /\ Finished(c) <=> Len(outcome[c]) = 1
        /\ Finished(c) => outcome[c][1].t \in {"return", "throw"}
        /\ Returned(c) => GotResponse(c) /\ response[c].ok
        /\ Threw(c) => (IsPoofError(Thrown(c)) <=> TypedCause(c))

\* A call ended with the transport's own error, and another with a result.
C1_Witness ==
    \E c, d \in Calls :
        /\ Threw(c) /\ ~IsPoofError(Thrown(c)) /\ rejection[c] # Undefined
        /\ Returned(d)

DocumentedKind(code) ==
    CASE code = "authentication_error" -> "AuthenticationError"
      [] code = "permission_denied" -> "PermissionError"
      [] code = "payment_required" -> "PaymentRequiredError"
      [] code = "rate_limit_exceeded" -> "RateLimitError"
      [] code \in {"validation_error", "missing_image", "image_too_large"}
            -> "ValidationError"
      [] code \in {"upstream_error", "internal_server_error"} -> "ServerError"
      [] OTHER -> "PoofError"

\* C3: fromResponse returns the documented kind for each enumerated code and
\* the base PoofError carrying the code for every other code, with the
\* payload's message, request id and details and the given status.
C3_Classification ==
    fout # <<>> =>
        /\ fout[1].t = "return"
        /\ fout[1].v.class = DocumentedKind(fin.payload.code[1])
        /\ fout[1].v.code = fin.payload.code
        /\ fout[1].v.message = fin.payload.message[1]
        /\ fout[1].v.status = <<fin.status>>
        /\ fout[1].v.requestId = fin.payload.request_id
        /\ fout[1].v.details = fin.payload.details

\* C4: a non-ok response whose body is not the error payload (not JSON, or
\* JSON that is no such object) ends the call with a PoofError of code
\* 'unknown_error', the response's status, the message 'HTTP <status>:
\* <status text>' and no request id or details.
C4_UnparseableBody ==
    \A c \in Calls :
        /\ Finished(c) /\ GotResponse(c) /\ ~response[c].ok
        /\ \/ response[c].body.kind # "json"
           \/ response[c].body.json.t # "object"
        => outcome[c] =
             <<Throw([class |-> "PoofError", name |-> "PoofError",
                      message |-> "HTTP " \o ToString(response[c].status) \o ": "
                                  \o response[c].statusText,
                      isError |-> TRUE, code |-> <<"unknown_error">>,
                      status |-> <<response[c].status>>,
                      requestId |-> <<>>, details |-> <<>>])>>

\* The values of the form fields called name.
FieldValues(form, name) ==
    {form.fields[i].value : i \in {j \in 1..Len(form.fields) : form.fields[j].name = name}}

FieldCount(form, name) ==
    Cardinality({j \in 1..Len(form.fields) : form.fields[j].name = name})

OptionFieldNames == {"format", "channels", "bg_color", "size", "crop"}

\* The form has image_file, and the field called name exactly when `sent`,
\* once, with the given value.
CarriesField(form, name, sent, value) ==
    IF sent
    THEN FieldCount(form, name) = 1 /\ FieldValues(form, name) = {value[1]}
    ELSE FieldCount(form, name) = 0

CropString(crop) == IF crop = <<TRUE>> THEN <<"true">> ELSE <<"false">>

\* C5, as stated: the form carries image_file and each optional field exactly
\* when the caller supplied the option, with the supplied value, crop as
\* 'true' or 'false'.
C5_FieldIffSupplied ==
    fout # <<>> =>
        /\ fout[1].image_file.blob = FileInput.blob
        /\ CarriesField(fout[1], "format", fin.format # Undefined, fin.format)
        /\ CarriesField(fout[1], "channels", fin.channels # Undefined, fin.channels)
        /\ CarriesField(fout[1], "bg_color", fin.bgColor # Undefined, fin.bgColor)
        /\ CarriesField(fout[1], "size", fin.size # Undefined, fin.size)
        /\ CarriesField(fout[1], "crop", fin.crop # Undefined, CropString(fin.crop))

\* C5, amended: the form carries image_file; format, channels, bg_color and
\* size exactly when the caller supplied a non-empty string for the option,
\* with that string; crop exactly when the caller supplied it, as 'true' or
\* 'false'; and no other field.
C5_FieldIffNonEmpty ==
    fout # <<>> =>
        /\ fout[1].image_file.blob = FileInput.blob
        /\ CarriesField(fout[1], "format", fin.format \notin {<<>>, <<"">>}, fin.format)
        /\ CarriesField(fout[1], "channels", fin.channels \notin {<<>>, <<"">>}, fin.channels)
        /\ CarriesField(fout[1], "bg_color", fin.bgColor \notin {<<>>, <<"">>}, fin.bgColor)
        /\ CarriesField(fout[1], "size", fin.size \notin {<<>>, <<"">>}, fin.size)
        /\ CarriesField(fout[1], "crop", fin.crop # <<>>, CropString(fin.crop))
        /\ \A i \in 1..Len(fout[1].fields) : fout[1].fields[i].name \in OptionFieldNames

\* A form built for crop: false, an empty bgColor and no format: it carries
\* crop and neither of the others.
C5_Witness ==
    /\ fout # <<>>
    /\ fin.crop = <<FALSE>> /\ fin.bgColor = <<"">> /\ fin.format = <<>>
    /\ fin.size = <<"medium">>
    /\ FieldValues(fout[1], "crop") = {"false"}

\* bytes has sig at offset at (from 0).
HasBytesAt(bytes, at, sig) ==
    Len(bytes) >= at + Len(sig) /\ SubSeq(bytes, at + 1, at + Len(sig)) = sig

\* The content type the signatures give, in their order of priority.
SignatureType(bytes) ==
    IF HasBytesAt(bytes, 0, <<137, 80, 78, 71>>) THEN "image/png"
    ELSE IF HasBytesAt(bytes, 0, <<255, 216, 255>>) THEN "image/jpeg"
    ELSE IF HasBytesAt(bytes, 0, <<82, 73, 70, 70>>) /\ HasBytesAt(bytes, 8, <<87, 69, 66, 80>>)
    THEN "image/webp"
    ELSE IF HasBytesAt(bytes, 0, <<71, 73, 70>>) THEN "image/gif"
    ELSE "application/octet-stream"

\* C6: for raw bytes of any length toBlob returns a Blob of those bytes whose
\* type is the one the signatures give: PNG, JPEG, WEBP (RIFF and WEBP at
\* offset 8), GIF, and application/octet-stream when none matches.
C6_SignatureType ==
    fout # <<>> /\ fin.input.t \in {"ArrayBuffer", "Uint8Array", "Buffer"} =>
        /\ fout[1].t = "return"
        /\ fout[1].v.bytes = fin.input.bytes
        /\ fout[1].v.type = SignatureType(fin.input.bytes)

\* toBlob ran on a RIFF buffer too short to hold WEBP at offset 8.
C6_Witness ==
    /\ fout # <<>> /\ fin.input.t = "Uint8Array"
    /\ HasBytesAt(fin.input.bytes, 0, <<82, 73, 70, 70>>)
    /\ Len(fin.input.bytes) = 10
    /\ fout[1].v.type = "application/octet-stream"

\* The content type of a recognised extension.
ExtensionType(ext) ==
    CASE ext = "png" -> "image/png"
      [] ext \in {"jpg", "jpeg"} -> "image/jpeg"
      [] ext = "webp" -> "image/webp"
      [] ext = "gif" -> "image/gif"

\* C7: for a path on a host with a file system, toBlob takes the content type
\* from the lower-cased extension when it is png, jpg, jpeg, webp or gif, and
\* from the signature of the file's bytes for every other extension.
C7_ExtensionThenSignature ==
    fout # <<>> /\ fin.input.t = "string" /\ fin.host.isNode /\ fin.file.ok =>
        LET ext == Join(slice1(toLowerCase(extname(fin.input.path))))
        IN  /\ fout[1].t = "return"
            /\ fout[1].v.type =
                 IF ext \in {"png", "jpg", "jpeg", "webp", "gif"}
                 THEN ExtensionType(ext)
                 ELSE SignatureType(fin.file.bytes)

\* C8: a transport rejection whose name is not 'AbortError' leaves the call
\* as the same error value, and a call ends with a PoofError only after its
\* timer fired or after a non-ok response.
C8_TransportFailurePropagates ==
    \A c \in Calls :
        /\ rejection[c] # Undefined /\ rejection[c][1].name # "AbortError"
            => Finished(c) /\ outcome[c] = <<Throw(rejection[c][1])>>
        /\ Threw(c) /\ IsPoofError(Thrown(c))
            => timer[c] = "fired" \/ (GotResponse(c) /\ ~response[c].ok)

\* The transport rejected a call's request with its own error.
C8_Witness ==
    \E c \in Calls :
        /\ Finished(c)
        /\ rejection[c] # Undefined /\ rejection[c][1].name = "TypeError"

\* C9: a call issues at most one transport request: one once input
\* normalisation has succeeded, none when it failed; a call issues its
\* request only before anything came back, so never after a failure; every
\* request carries x-api-key with the configured credential.
C9_NoRetries ==
    \A c \in Calls :
        /\ Len(request[c]) <= 1
        /\ pc[c] \in {"idle", "toBlob"} => Len(request[c]) = 0
        /\ pc[c] \in {"fetch", "errorBody", "body"} => Len(request[c]) = 1
        /\ Finished(c) /\ (call[c].op = "me" \/ IsBlob(call[c].input))
            => Len(request[c]) = 1
        /\ Finished(c) /\ Len(request[c]) = 0
            => /\ call[c].op = "removeBackground"
               /\ Threw(c) /\ ~GotResponse(c) /\ timer[c] = "unset"
        /\ \A i \in 1..Len(request[c]) :
              request[c][i].headers.xApiKey = <<config.apiKey>>

\* One call ended on a non-ok response and another on a failed normalisation.
C9_Witness ==
    \E c, d \in Calls :
        /\ Threw(c) /\ GotResponse(c) /\ Len(request[c]) = 1
        /\ Threw(d) /\ Len(request[d]) = 0

\* Everything the instance holds for call c.
CallState(c) ==
    <<pc[c], call[c], request[c], rejection[c], timer[c], aborted[c],
      elapsedAt[c], response[c], outcome[c]>>

\* C10: no step changes the configuration; every step is a step of one
\* call and leaves every other call as it was; and a call's request is
\* aborted only by the call's own timer.
C10_CallsIndependent ==
    /\ [][/\ config' = config
          /\ \A c, d \in Calls :
                c # d => CallState(c)' = CallState(c) \/ CallState(d)' = CallState(d)
          /\ \A c \in Calls :
                aborted'[c] /\ ~aborted[c] => timer[c] = "armed" /\ timer'[c] = "fired"
         ]_vars
    /\ [](\A c \in Calls :
            rejection[c] = <<AbortError>> => timer[c] = "fired")

\* One call timed out while another was still waiting for its response.
C10_Witness ==
    \E c, d \in Calls :
        /\ c # d
        /\ elapsedAt[c] = "headers" /\ Finished(c)
        /\ pc[d] = "fetch" /\ timer[d] = "armed"

\* The transport request of call c is in flight: Poof.fetch is at its await.
InFlight(c) == pc[c] = "fetch" /\ response[c] = NoResponse

\* C11: a call's timer is armed only while its transport request is in
\* flight; once the call has received its response or has ended the timer is
\* not armed; and no step fires a timer, aborts a controller or rejects a
\* request with an AbortError for a call whose request is not in flight.
C11_TimerArmedOnlyInFlight ==
    /\ [](\A c \in Calls :
            /\ timer[c] = "armed" => InFlight(c)
            /\ GotResponse(c) \/ Finished(c) => timer[c] # "armed")
    /\ [][\A c \in Calls :
            /\ timer'[c] = "fired" /\ timer[c] # "fired" => InFlight(c)
            /\ aborted'[c] /\ ~aborted[c] => InFlight(c)
            /\ rejection'[c] = <<AbortError>> /\ rejection[c] # <<AbortError>>
                    => InFlight(c)
         ]_vars

\* Every exit from the await has happened: one call received its response,
\* its timer was cleared and the timeout then elapsed while the body was read
\* without stopping the call; another ended on a transport failure with its
\* timer cleared.
C11_Witness ==
    \E c, d \in Calls :
        /\ GotResponse(c) /\ timer[c] = "cleared"
        /\ elapsedAt[c] = "body" /\ Returned(c) /\ ~aborted[c]
        /\ rejection[d] \in {Some(e) : e \in TransportErrors}
        /\ Finished(d) /\ timer[d] = "cleared"

====
